---- MODULE Spec2Model ----
(***************************************************************************)
(* FlowVRFService: verifiable-randomness sourcing (Cadence Arch) and       *)
(* judge selection.  Every invocation of a service method is a task; a     *)
(* task advances one step per resumed `await`, so the steps of different   *)
(* tasks interleave exactly where the JavaScript event loop may switch.    *)
(*                                                                         *)
(* Numbers.  The oracle returns a uint64 and the code handles it as a      *)
(* BigInt.  A BigInt is modelled as its base-2^16 limbs, least significant *)
(* first, without leading zero limbs (zero is the empty sequence), so      *)
(* that 64-bit values and the unbounded sums the code forms from them are  *)
(* exact.  A hex string is the sequence of its characters.                 *)
(***************************************************************************)
EXTENDS Integers, Sequences, FiniteSets, TLC

VARIABLES
    task,   \* task[s]: the invocation running in slot s (its arguments, locals, position, outcome)
    now,    \* the wall clock read by Date.now() / new Date()
    db,     \* the hosted datastore: the rows of its projects and judge_assignments tables
    agentInstance   \* the module-level agentInstance of the agent module (part_002, line 681)

vars == <<task, now, db, agentInstance>>

(***************************************************************************)
(* Bounds of the model.                                                    *)
(***************************************************************************)
MaxN == 3            \* longest small candidate list
MaxFreeDraws == 3    \* oracle responses of one task that range over OracleValues
NumRequestIds == 2   \* distinct outcomes of randomBytes(8)
MaxClock == 1        \* clock ticks
MaxBlock == 0        \* highest block number the endpoint reports
MaxRange == 3        \* getRandomInRange: min, max range over -MaxRange..MaxRange

(***************************************************************************)
(* Program constants.                                                      *)
(***************************************************************************)
MaxRandomValues == 50    \* getMultipleRandomValues: "Maximum 50 random values per request"
AttemptsFactor == 2      \* selectJudges: attempts < availableJudges.length * 2

LimbBase == 2 ^ 16

(***************************************************************************)
(* BigInt arithmetic on limbs.                                             *)
(***************************************************************************)
RECURSIVE Normalize(_)
Normalize(x) ==
    IF x = <<>> THEN <<>>
    ELSE IF x[Len(x)] = 0 THEN Normalize(SubSeq(x, 1, Len(x) - 1))
    ELSE x

\* x * m + a for small naturals m, a (m, a < 2^14)
RECURSIVE MulAdd(_, _, _)
MulAdd(x, m, a) ==
    IF x = <<>>
    THEN (IF a = 0 THEN <<>> ELSE <<a>>)
    ELSE LET t == x[1] * m + a
         IN <<t % LimbBase>> \o MulAdd(Tail(x), m, t \div LimbBase)

\* BigInt(n) for a small natural n
BigIntOfNumber(n) == MulAdd(<<>>, 1, n)

\* x + BigInt(a)
BigIntAdd(x, a) == Normalize(MulAdd(x, 1, a))

\* Number(x % BigInt(n)), n > 0, by Horner's rule from the most significant limb
RECURSIVE ModFrom(_, _, _, _)
ModFrom(x, n, i, r) ==
    IF i = 0 THEN r
    ELSE ModFrom(x, n, i - 1, (r * LimbBase + x[i]) % n)

BigIntMod(x, n) == ModFrom(x, n, Len(x), 0)

MaxUint64 == <<LimbBase - 1, LimbBase - 1, LimbBase - 1, LimbBase - 1>>

(***************************************************************************)
(* Hex text: ethers.toBeHex(value) and BigInt("0x...").                    *)
(***************************************************************************)
HexChars == <<"0", "1", "2", "3", "4", "5", "6", "7",
              "8", "9", "a", "b", "c", "d", "e", "f">>

HexDigitOf(c) == (CHOOSE d \in 1..16 : HexChars[d] = c) - 1

\* the four hex characters of one limb, most significant first
LimbHex(l) == << HexChars[(l \div 4096) + 1], HexChars[((l \div 256) % 16) + 1],
                 HexChars[((l \div 16) % 16) + 1], HexChars[(l % 16) + 1] >>

RECURSIVE LimbsHex(_)
LimbsHex(x) == IF x = <<>> THEN <<>> ELSE LimbsHex(Tail(x)) \o LimbHex(x[1])

RECURSIVE StripZeros(_)
StripZeros(cs) ==
    IF Len(cs) > 1 /\ cs[1] = "0" THEN StripZeros(Tail(cs)) ELSE cs

\* value.toString(16)
ToString16(x) == IF x = <<>> THEN <<"0">> ELSE StripZeros(LimbsHex(x))

\* ethers.toBeHex(value): "0x" and the hex digits, padded to an even count
toBeHex(value) ==
    LET result == ToString16(value)
    IN <<"0", "x">> \o (IF Len(result) % 2 = 1 THEN <<"0">> \o result ELSE result)

\* BigInt(text) of a "0x" hex literal
RECURSIVE ParseHex(_, _)
ParseHex(cs, acc) ==
    IF cs = <<>> THEN acc
    ELSE ParseHex(Tail(cs), MulAdd(acc, 16, HexDigitOf(cs[1])))

BigIntOfHex(text) == Normalize(ParseHex(SubSeq(text, 3, Len(text)), <<>>))

(***************************************************************************)
(* Errors, named by the message the code throws.  A failure of             *)
(* provider.call and a failure of AbiCoder.decode are ethers' own errors.  *)
(***************************************************************************)
ErrInsufficientCandidates == "Cannot select more judges than available"
ErrInvalidJudgeCount == "Must select at least one judge"
ErrDuplicateSelection == "Failed to select unique judges"
ErrInvalidCount == "Count must be positive"
ErrTooManyRequested == "Maximum 50 random values per request"
ErrInvalidRange == "Max must be >= min"
ErrVRFRequestFailed == "Flow VRF request failed"
ErrCallException == "CALL_EXCEPTION"
ErrBadData == "BAD_DATA"

\* what the selection loop ends with: the returned array, or the error thrown
Selected(selectedJudges) == [status |-> "ok", assignments |-> selectedJudges]
Thrown(e) == [status |-> e, assignments |-> <<>>]

(***************************************************************************)
(* FlowVRFService.selectJudges: argument checks and the selection loop.    *)
(***************************************************************************)
\* variants: the first guard missing; the second guard written `< 0`
SelectJudgesCheckNoUpper(availableJudges, numJudges) ==
    IF numJudges <= 0 THEN ErrInvalidJudgeCount ELSE "ok"

SelectJudgesCheckZeroAllowed(availableJudges, numJudges) ==
    IF numJudges > Len(availableJudges) THEN ErrInsufficientCandidates
    ELSE IF numJudges < 0 THEN ErrInvalidJudgeCount
    ELSE "ok"

\* the two guards at the head of selectJudges, in the order of the code
SelectJudgesCheck(availableJudges, numJudges) ==
    IF numJudges > Len(availableJudges) THEN ErrInsufficientCandidates
    ELSE IF numJudges <= 0 THEN ErrInvalidJudgeCount
    ELSE "ok"

\* variant: attempts is incremented before the value is offset
RECURSIVE FindUnusedPreIncrement(_, _, _, _)
FindUnusedPreIncrement(value, n, usedIndices, attempts) ==
    LET randomValue == BigIntAdd(value, attempts + 1)
        judgeIndex == BigIntMod(randomValue, n)
    IN IF judgeIndex \in usedIndices /\ attempts + 1 < n * AttemptsFactor
       THEN FindUnusedPreIncrement(value, n, usedIndices, attempts + 1)
       ELSE [judgeIndex |-> judgeIndex, attempts |-> attempts + 1]

\* variant: the cap written `attempts <= n * 2`
RECURSIVE FindUnusedCapInclusive(_, _, _, _)
FindUnusedCapInclusive(value, n, usedIndices, attempts) ==
    LET randomValue == BigIntAdd(value, attempts)
        judgeIndex == BigIntMod(randomValue, n)
    IN IF judgeIndex \in usedIndices /\ attempts + 1 <= n * AttemptsFactor
       THEN FindUnusedCapInclusive(value, n, usedIndices, attempts + 1)
       ELSE [judgeIndex |-> judgeIndex, attempts |-> attempts + 1]

\* variant: each retry advances the offset by two
RECURSIVE FindUnusedStrideTwo(_, _, _, _)
FindUnusedStrideTwo(value, n, usedIndices, attempts) ==
    LET randomValue == BigIntAdd(value, 2 * attempts)
        judgeIndex == BigIntMod(randomValue, n)
    IN IF judgeIndex \in usedIndices /\ attempts + 1 < n * AttemptsFactor
       THEN FindUnusedStrideTwo(value, n, usedIndices, attempts + 1)
       ELSE [judgeIndex |-> judgeIndex, attempts |-> attempts + 1]

\* variant: the pick takes the lowest unused position, whatever the value
FindUnusedLowestFree(value, n, usedIndices, attempts) ==
    LET free == (0..(n - 1)) \ usedIndices
    IN [judgeIndex |-> IF free = {} THEN 0 ELSE CHOOSE p \in free : \A q \in free : p <= q,
        attempts |-> attempts + 1]

\* do { randomValue = value + attempts; judgeIndex = randomValue % n; attempts++ }
\* while (usedIndices.has(judgeIndex) && attempts < n * 2)
RECURSIVE FindUnused(_, _, _, _)
FindUnused(value, n, usedIndices, attempts) ==
    LET randomValue == BigIntAdd(value, attempts)
        judgeIndex == BigIntMod(randomValue, n)
    IN IF judgeIndex \in usedIndices /\ attempts + 1 < n * AttemptsFactor
       THEN FindUnused(value, n, usedIndices, attempts + 1)
       ELSE [judgeIndex |-> judgeIndex, attempts |-> attempts + 1]

\* variant: the offset value is what gets recorded
MakeAssignmentOffset(availableJudges, projectId, vrfResult, allRandomValues, i, f, t) ==
    [ projectId      |-> projectId,
      judgeEmail     |-> availableJudges[f.judgeIndex + 1],
      assignedAt     |-> t,
      vrfRequestId   |-> vrfResult.requestId,
      randomnessUsed |-> toBeHex(BigIntAdd(allRandomValues[i + 1], f.attempts - 1)) ]

\* the record pushed for pick i (0-based); f holds the loop's judgeIndex and attempts
MakeAssignment(availableJudges, projectId, vrfResult, allRandomValues, i, f, t) ==
    [ projectId      |-> projectId,
      judgeEmail     |-> availableJudges[f.judgeIndex + 1],
      assignedAt     |-> t,
      vrfRequestId   |-> vrfResult.requestId,
      randomnessUsed |-> toBeHex(allRandomValues[i + 1]) ]

\* variant: a candidate whose identifier was already selected is refused
RECURSIVE PickLoopUniqueEmails(_, _, _, _, _, _, _, _, _)
PickLoopUniqueEmails(availableJudges, numJudges, projectId, vrfResult, allRandomValues, t, i, usedIndices, selectedJudges) ==
    IF i >= numJudges THEN Selected(selectedJudges)
    ELSE LET f == FindUnused(allRandomValues[i + 1], Len(availableJudges), usedIndices, 0)
             taken == {selectedJudges[j].judgeEmail : j \in 1..Len(selectedJudges)}
         IN IF f.judgeIndex \in usedIndices \/ availableJudges[f.judgeIndex + 1] \in taken
            THEN Thrown(ErrDuplicateSelection)
            ELSE PickLoopUniqueEmails(availableJudges, numJudges, projectId, vrfResult,
                          allRandomValues, t, i + 1, usedIndices \cup {f.judgeIndex},
                          Append(selectedJudges,
                                 MakeAssignment(availableJudges, projectId, vrfResult,
                                                allRandomValues, i, f, t)))

\* for (let i = 0; i < numJudges; i++) { ... }
RECURSIVE PickLoop(_, _, _, _, _, _, _, _, _)
PickLoop(availableJudges, numJudges, projectId, vrfResult, allRandomValues, t, i, usedIndices, selectedJudges) ==
    IF i >= numJudges THEN Selected(selectedJudges)
    ELSE LET f == FindUnused(allRandomValues[i + 1], Len(availableJudges), usedIndices, 0)
         IN IF f.judgeIndex \in usedIndices
            THEN Thrown(ErrDuplicateSelection)
            ELSE PickLoop(availableJudges, numJudges, projectId, vrfResult, allRandomValues, t,
                          i + 1, usedIndices \cup {f.judgeIndex},
                          Append(selectedJudges,
                                 MakeAssignment(availableJudges, projectId, vrfResult,
                                                allRandomValues, i, f, t)))

\* variant: the first value is taken from the locally generated request id
AllRandomValuesFromRequestId(vrfResult, randomValues) ==
    <<BigIntOfNumber(vrfResult.requestId)>> \o randomValues

\* variant: the first draw is reused for every pick
AllRandomValuesReuseFirst(vrfResult, randomValues) ==
    [i \in 1..(Len(randomValues) + 1) |-> BigIntOfHex(vrfResult.randomness)]

\* allRandomValues = [BigInt(vrfResult.randomness), ...randomValues]
AllRandomValues(vrfResult, randomValues) ==
    <<BigIntOfHex(vrfResult.randomness)>> \o randomValues

\* selectJudges from line 116 to its return
SelectFrom(availableJudges, numJudges, projectId, vrfResult, randomValues, t) ==
    PickLoop(availableJudges, numJudges, projectId, vrfResult,
             AllRandomValues(vrfResult, randomValues), t, 0, {}, <<>>)

(***************************************************************************)
(* FlowVRFService.getMultipleRandomValues / getRandomInRange: argument     *)
(* checks and the range reduction.                                         *)
(***************************************************************************)
\* variant: the ceiling written `>=`
GetMultipleCheckCeilingExclusive(count) ==
    IF count <= 0 THEN ErrInvalidCount
    ELSE IF count >= MaxRandomValues THEN ErrTooManyRequested
    ELSE "ok"

\* variant: no ceiling
GetMultipleCheckNoCeiling(count) ==
    IF count <= 0 THEN ErrInvalidCount ELSE "ok"

GetMultipleCheck(count) ==
    IF count <= 0 THEN ErrInvalidCount
    ELSE IF count > MaxRandomValues THEN ErrTooManyRequested
    ELSE "ok"

\* variant: the guard compares against min - 1
GetRandomInRangeCheckOffByOne(min, max) ==
    IF max < min - 1 THEN ErrInvalidRange ELSE "ok"

GetRandomInRangeCheck(min, max) ==
    IF max < min THEN ErrInvalidRange ELSE "ok"

\* variant: the loop written `i <= count`
LoopContinuesInclusive(i, count) == i <= count

\* for (let i = 0; i < count; i++): i values are pushed so far
LoopContinues(i, count) == i < count

\* variant: the offset by min is missing
RangeReduceNoOffset(randomValue, min, max) ==
    LET range == max - min + 1
    IN BigIntMod(randomValue, range)

\* range = max - min + 1; Number(randomValue % BigInt(range)) + min
RangeReduce(randomValue, min, max) ==
    LET range == max - min + 1
    IN BigIntMod(randomValue, range) + min

(***************************************************************************)
(* The environment: the oracle (Cadence Arch revertibleRandom() behind     *)
(* provider.call), provider.getBlock, randomBytes and the callers.         *)
(***************************************************************************)
\* judge identifiers are opaque strings; the model numbers them
Pool(n) == [i \in 1..n |-> i]
\* a list whose last entry repeats its first
PoolWithRepeat(n) == [i \in 1..n |-> IF i = n THEN 1 ELSE i]

LargePool == Pool(MaxRandomValues + 2)

\* several invocations in flight at once: the inputs are drawn from narrower sets
Concurrent == Cardinality(DOMAIN task) > 1

CandidateLists ==
    IF Concurrent THEN {Pool(2), Pool(3)}
    ELSE {Pool(n) : n \in 0..MaxN} \cup {PoolWithRepeat(n) : n \in 2..MaxN} \cup {LargePool}

JudgeCounts ==
    IF Concurrent THEN {2}
    ELSE (-1..(MaxN + 1)) \cup ((MaxRandomValues + 1)..(MaxRandomValues + 3))

ProjectIds == {"p1", "p2"}

\* selectJudges copies projectId into its assignments and reads it nowhere else:
\* an invocation running alone is given one
SelectProjectIds == IF Concurrent THEN ProjectIds ELSE {"p1"}

Counts == (-1..MaxFreeDraws) \cup {MaxRandomValues, MaxRandomValues + 1}

RangeEnds == (-MaxRange)..MaxRange

OracleValues ==
    IF Concurrent THEN {<<4>>, <<7>>}
    ELSE {<<>>, <<4>>, <<7>>, <<12>>, MaxUint64}

FixedValue == <<4>>

RequestIds == IF Concurrent THEN 1..2 ELSE 1..NumRequestIds

\* what a provider.call of revertibleRandom() ends with: a 32-byte word holding a
\* uint64, a rejected call, or data that AbiCoder.decode(["uint64"]) refuses
CallValue(v) == [kind |-> "value", value |-> v]
CallRejects == [kind |-> "reject", value |-> <<>>]
CallMalformed == [kind |-> "malformed", value |-> <<>>]

\* the number of oracle values the invocation asks for
Requested(t) ==
    IF t.op = "selectJudges" THEN t.numJudges
    ELSE IF t.op = "getMultipleRandomValues" THEN t.count
    ELSE 1

\* the responses to an invocation asking for at most MaxFreeDraws values, over a
\* candidate list of at most MaxN entries, range over OracleValues; a longer run,
\* or one over LargePool, is answered FixedValue throughout
CallResponses(t) ==
    {CallValue(v) : v \in (IF Requested(t) <= MaxFreeDraws /\ Len(t.availableJudges) <= MaxN
                            THEN OracleValues ELSE {FixedValue})}
        \cup {CallRejects, CallMalformed}

\* provider.getBlock("latest"): a block, null, or a rejected call
BlockResponses ==
    IF Concurrent
    THEN {[kind |-> "block", number |-> 1], [kind |-> "reject", number |-> 0]}
    ELSE {[kind |-> "block", number |-> b] : b \in 0..MaxBlock}
            \cup {[kind |-> "null", number |-> 0], [kind |-> "reject", number |-> 0]}

(***************************************************************************)
(* Tasks.                                                                  *)
(***************************************************************************)
\* let agentInstance: UnifiedDJAgent | null = null; `constructed` counts the
\* constructor runs
NoAgent == [constructed |-> 0, allowedJudges |-> <<>>]

\* getUnifiedDJAgent(): config is undefined
NoConfig == [hasJudges |-> FALSE, allowedJudges |-> <<>>]

EmptyDb == [projects |-> <<>>, judge_assignments |-> <<>>]

NoVRFResult == [randomness |-> <<>>, requestId |-> 0, blockHeight |-> 0, timestamp |-> 0]

IdleTask ==
    [ op |-> "none", pc |-> "idle",
      \* arguments
      availableJudges |-> <<>>, numJudges |-> 0, projectId |-> "",
      count |-> 0, min |-> 0, max |-> 0,
      \* locals
      randomValue |-> <<>>, vrfResult |-> NoVRFResult, randomValues |-> <<>>,
      \* locals of selectJudges' selection loop, and of its last iteration
      i |-> 0, usedIndices |-> {}, selectedJudges |-> <<>>,
      attempts |-> 0, judgeIndex |-> 0, usedBefore |-> {},
      \* the caller of selectJudges, if any, and the numJudges it was given
      caller |-> "", requested |-> 0,
      \* validateFlowNetwork: how getNetwork() settled, and the boolean returned
      network |-> [kind |-> "none", chainId |-> 0], valid |-> FALSE,
      \* the configuration handed to getUnifiedDJAgent for this invocation
      config |-> NoConfig,
      \* locals of the submit handler: the minted token, the assignments written
      \* so far, whether a write was refused, and the HTTP response
      tokenId |-> "", saved |-> 0, storeFailed |-> FALSE,
      response |-> [status |-> 0, body |-> [success |-> FALSE]],
      \* the call-counting mock: calls issued, values returned in order
      oracleCalls |-> 0, loopCalls |-> 0, drawn |-> <<>>,
      \* how each provider.call ended, in order: "value", "reject" or "malformed"
      replies |-> <<>>,
      \* outcome: "pending", "ok" or the error; and the value returned
      status |-> "pending", assignments |-> <<>>, values |-> <<>>,
      number |-> 0, draw |-> NoVRFResult ]

Throw(t, e) == [t EXCEPT !.pc = "done", !.status = e]

\* await this.provider.call({to: CADENCE_ARCH_ADDRESS, data: selector})
IssueCall(t, at) ==
    [t EXCEPT !.pc = at, !.oracleCalls = @ + 1,
              !.loopCalls = IF at = "gm_call" THEN @ + 1 ELSE @]

\* the error a failed provider.call / decode raises where nothing catches it
RawError(r) == IF r.kind = "reject" THEN ErrCallException ELSE ErrBadData

\* variant: the catch falls back to a default value and carries on
RequestRandomnessCatchFallback(t) == [t EXCEPT !.pc = "rr_block", !.randomValue = <<>>]

\* requestRandomness: catch (error) { throw new Error(`Flow VRF request failed: ...`) }
RequestRandomnessCatch(t) == Throw(t, ErrVRFRequestFailed)

\* variant: a failed call of the loop is issued again
UncaughtRetry(t, r) == IssueCall(t, t.pc)

\* getMultipleRandomValues / getRandomInRange: nothing catches, the error leaves the
\* method (and selectJudges, when it is the caller) as raised
Uncaught(t, r) == Throw(t, RawError(r))

\* variant: usedIndices lives on the service object and keeps the positions that
\* the selections not yet handed back have taken
FinishSelectSharedUsed(t, randomValues, tnow) ==
    LET shared == UNION {{u.assignments[i].judgeEmail - 1 : i \in 1..Len(u.assignments)} :
                           u \in {task[s] : s \in DOMAIN task}}
        r == PickLoop(t.availableJudges, t.numJudges, t.projectId, t.vrfResult,
                      AllRandomValues(t.vrfResult, randomValues), tnow, 0, shared, <<>>)
    IN [t EXCEPT !.pc = "done", !.status = r.status, !.assignments = r.assignments]

\* selectJudges, lines 116-150, once all values are drawn
FinishSelect(t, randomValues, tnow) ==
    LET r == SelectFrom(t.availableJudges, t.numJudges, t.projectId,
                        t.vrfResult, randomValues, tnow)
    IN [t EXCEPT !.pc = "done", !.status = r.status, !.assignments = r.assignments]

\* variant: the first oracle call is issued before count is checked
EnterGetMultipleCallFirst(t, count) ==
    LET chk == GetMultipleCheck(count)
        called == IssueCall([t EXCEPT !.count = count, !.randomValues = <<>>], "gm_call")
    IN IF chk # "ok" THEN Throw(called, chk) ELSE called

\* variant: the count calls are all issued at once (Promise.all)
EnterGetMultipleBatched(t, count) ==
    LET chk == GetMultipleCheck(count)
        called == IssueCall([t EXCEPT !.count = count, !.randomValues = <<>>], "gm_call")
    IN IF chk # "ok" THEN Throw([t EXCEPT !.count = count], chk)
       ELSE [called EXCEPT !.oracleCalls = t.oracleCalls + count]

\* getMultipleRandomValues(count) up to its first await
EnterGetMultiple(t, count) ==
    LET chk == GetMultipleCheck(count)
    IN IF chk # "ok" THEN Throw([t EXCEPT !.count = count], chk)
       ELSE IssueCall([t EXCEPT !.count = count, !.randomValues = <<>>], "gm_call")

\* variant: numJudges further values are requested
AfterRequestRandomnessFullCount(t, tnow) ==
    IF t.numJudges > 1 THEN EnterGetMultiple(t, t.numJudges)
    ELSE FinishSelect(t, <<>>, tnow)

\* selectJudges after `await this.requestRandomness()` (lines 112-113)
AfterRequestRandomness(t, tnow) ==
    IF t.numJudges > 1 THEN EnterGetMultiple(t, t.numJudges - 1)
    ELSE FinishSelect(t, <<>>, tnow)

(***************************************************************************)
(* Actions.  S is the set of slots a specification runs.                   *)
(***************************************************************************)
Init ==
    /\ task = [s \in {1} |-> IdleTask]
    /\ now = 0
    /\ db = EmptyDb
    /\ agentInstance = NoAgent

\* selectJudges, lines 100-109: the argument checks, then the first draw
EnterSelectJudges(t) ==
    LET chk == SelectJudgesCheck(t.availableJudges, t.numJudges)
    IN IF chk # "ok" THEN Throw(t, chk) ELSE IssueCall(t, "rr_call")

\* selectJudges(availableJudges, numJudges, projectId) up to its first await
SelectJudgesCall(s) ==
    /\ task[s].pc = "idle"
    /\ \E availableJudges \in CandidateLists, numJudges \in JudgeCounts, projectId \in SelectProjectIds :
         task' = [task EXCEPT ![s] =
                    EnterSelectJudges([IdleTask EXCEPT !.op = "selectJudges",
                                                       !.availableJudges = availableJudges,
                                                       !.numJudges = numJudges,
                                                       !.projectId = projectId])]
    /\ UNCHANGED <<now, db, agentInstance>>

\* requestRandomness() up to its first await
RequestRandomnessCall(s) ==
    /\ task[s].pc = "idle"
    /\ task' = [task EXCEPT ![s] = IssueCall([IdleTask EXCEPT !.op = "requestRandomness"],
                                             "rr_call")]
    /\ UNCHANGED <<now, db, agentInstance>>

\* getMultipleRandomValues(count) up to its first await
GetMultipleRandomValuesCall(s) ==
    /\ task[s].pc = "idle"
    /\ \E count \in Counts :
         task' = [task EXCEPT ![s] =
                    EnterGetMultiple([IdleTask EXCEPT !.op = "getMultipleRandomValues"], count)]
    /\ UNCHANGED <<now, db, agentInstance>>

\* getRandomInRange(min, max) up to its first await
GetRandomInRangeCall(s) ==
    /\ task[s].pc = "idle"
    /\ \E min \in RangeEnds, max \in RangeEnds :
         LET t == [IdleTask EXCEPT !.op = "getRandomInRange", !.min = min, !.max = max]
             chk == GetRandomInRangeCheck(min, max)
         IN task' = [task EXCEPT ![s] = IF chk # "ok" THEN Throw(t, chk)
                                        ELSE IssueCall(t, "rir_call")]
    /\ UNCHANGED <<now, db, agentInstance>>

\* requestRandomness: provider.call settles (lines 40-52); any failure lands in the catch
RequestRandomnessDecode(s) ==
    /\ task[s].pc = "rr_call"
    /\ \E r \in CallResponses(task[s]) :
         LET t == [task[s] EXCEPT !.replies = Append(@, r.kind)]
         IN task' = [task EXCEPT ![s] =
                       IF r.kind = "value"
                       THEN [t EXCEPT !.pc = "rr_block", !.randomValue = r.value,
                                      !.drawn = Append(@, r.value)]
                       ELSE RequestRandomnessCatch(t)]
    /\ UNCHANGED <<now, db, agentInstance>>

\* requestRandomness: provider.getBlock settles, the result is built (lines 52-63) and
\* the caller resumes
RequestRandomnessReturn(s) ==
    /\ task[s].pc = "rr_block"
    /\ \E b \in BlockResponses, requestId \in RequestIds :
         LET t == task[s]
             vrfResult == [ randomness  |-> toBeHex(t.randomValue),
                            requestId   |-> requestId,
                            blockHeight |-> IF b.kind = "block" THEN b.number ELSE 0,
                            timestamp   |-> now ]
         IN task' = [task EXCEPT ![s] =
                       IF b.kind = "reject" THEN Throw(t, ErrVRFRequestFailed)
                       ELSE IF t.op = "requestRandomness"
                       THEN [t EXCEPT !.pc = "done", !.status = "ok", !.draw = vrfResult]
                       ELSE AfterRequestRandomness([t EXCEPT !.vrfResult = vrfResult], now)]
    /\ UNCHANGED <<now, db, agentInstance>>

\* getMultipleRandomValues: one provider.call of the loop settles (lines 76-89); a
\* failure propagates as raised
GetMultipleStep(s) ==
    /\ task[s].pc = "gm_call"
    /\ \E r \in CallResponses(task[s]) :
         LET t == [task[s] EXCEPT !.replies = Append(@, r.kind)]
             randomValues == Append(t.randomValues, r.value)
             t1 == [t EXCEPT !.randomValues = randomValues, !.drawn = Append(@, r.value)]
         IN task' = [task EXCEPT ![s] =
                       IF r.kind # "value" THEN Uncaught(t, r)
                       ELSE IF LoopContinues(Len(randomValues), t.count) THEN IssueCall(t1, "gm_call")
                       ELSE IF t.op = "getMultipleRandomValues"
                       THEN [t1 EXCEPT !.pc = "done", !.status = "ok", !.values = randomValues]
                       ELSE FinishSelect(t1, randomValues, now)]
    /\ UNCHANGED <<now, db, agentInstance>>

\* getRandomInRange: provider.call settles (lines 159-170)
GetRandomInRangeReturn(s) ==
    /\ task[s].pc = "rir_call"
    /\ \E r \in CallResponses(task[s]) :
         LET t == [task[s] EXCEPT !.replies = Append(@, r.kind)]
         IN task' = [task EXCEPT ![s] =
                       IF r.kind # "value" THEN Uncaught(t, r)
                       ELSE [t EXCEPT !.pc = "done", !.status = "ok",
                                      !.drawn = Append(@, r.value),
                                      !.number = RangeReduce(r.value, t.min, t.max)]]
    /\ UNCHANGED <<now, db, agentInstance>>

\* the caller takes the outcome; the slot is free for the next invocation
Settle(s) ==
    /\ task[s].pc = "done"
    /\ task' = [task EXCEPT ![s] = IdleTask]
    /\ UNCHANGED <<now, db, agentInstance>>

Tick ==
    /\ now < (IF Concurrent THEN 1 ELSE MaxClock)
    /\ now' = now + 1
    /\ UNCHANGED <<task, db, agentInstance>>

Next ==
    \/ \E s \in DOMAIN task : SelectJudgesCall(s)
    \/ \E s \in DOMAIN task : RequestRandomnessCall(s)
    \/ \E s \in DOMAIN task : GetMultipleRandomValuesCall(s)
    \/ \E s \in DOMAIN task : GetRandomInRangeCall(s)
    \/ \E s \in DOMAIN task : RequestRandomnessDecode(s)
    \/ \E s \in DOMAIN task : RequestRandomnessReturn(s)
    \/ \E s \in DOMAIN task : GetMultipleStep(s)
    \/ \E s \in DOMAIN task : GetRandomInRangeReturn(s)
    \/ \E s \in DOMAIN task : Settle(s)
    \/ Tick

Spec == Init /\ [][Next]_vars

(***************************************************************************)
(* An endpoint that may stay silent.  The methods await provider.call and  *)
(* provider.getBlock directly, with no timer of their own: a promise that  *)
(* never settles leaves the task suspended at its await.  The steps of     *)
(* Next are fair (a settled promise resumes its task); staying silent is   *)
(* the endpoint's choice and is neither forced nor excluded.               *)
(***************************************************************************)
Awaiting == {"rr_call", "rr_block", "gm_call", "rir_call"}

NeverSettles(s) ==
    /\ task[s].pc \in Awaiting
    /\ task' = [task EXCEPT ![s] = [@ EXCEPT !.pc = "suspended"]]
    /\ UNCHANGED <<now, db, agentInstance>>

NextLive ==
    \/ \E s \in DOMAIN task : SelectJudgesCall(s)
    \/ \E s \in DOMAIN task : RequestRandomnessCall(s)
    \/ \E s \in DOMAIN task : GetMultipleRandomValuesCall(s)
    \/ \E s \in DOMAIN task : GetRandomInRangeCall(s)
    \/ \E s \in DOMAIN task : RequestRandomnessDecode(s)
    \/ \E s \in DOMAIN task : RequestRandomnessReturn(s)
    \/ \E s \in DOMAIN task : GetMultipleStep(s)
    \/ \E s \in DOMAIN task : GetRandomInRangeReturn(s)
    \/ \E s \in DOMAIN task : Settle(s)
    \/ \E s \in DOMAIN task : NeverSettles(s)
    \/ Tick

SpecLive == Init /\ [][NextLive]_vars /\ WF_vars(Next)

(***************************************************************************)
(* Two selectJudges invocations in flight on the one service object.       *)
(***************************************************************************)
InitPair ==
    /\ task = [s \in {1, 2} |-> IdleTask]
    /\ now = 0
    /\ db = EmptyDb
    /\ agentInstance = NoAgent

NextPair ==
    \/ \E s \in DOMAIN task : SelectJudgesCall(s)
    \/ \E s \in DOMAIN task : RequestRandomnessDecode(s)
    \/ \E s \in DOMAIN task : RequestRandomnessReturn(s)
    \/ \E s \in DOMAIN task : GetMultipleStep(s)
    \/ \E s \in DOMAIN task : Settle(s)
    \/ Tick

SpecPair == InitPair /\ [][NextPair]_vars

(***************************************************************************)
(* JudgeAssignmentService.assignRandomJudges (part_002, lines 142-161) on   *)
(* top of selectJudges.                                                     *)
(***************************************************************************)
Min(a, b) == IF a < b THEN a ELSE b

\* this.allowedJudges, as given to the constructor
AssignPools == {Pool(n) : n \in 0..MaxN} \cup {LargePool}

\* the numJudges argument; 3 is the default
AssignCounts == (1..(MaxN + 1)) \cup {3} \cup ((MaxRandomValues + 2)..(MaxRandomValues + 3))

\* flowAssignments.map((assignment) => ({ ... }))
ToInternal(flowAssignments) ==
    [i \in 1..Len(flowAssignments) |->
        [ projectId      |-> flowAssignments[i].projectId,
          judgeEmail     |-> flowAssignments[i].judgeEmail,
          assignedAt     |-> flowAssignments[i].assignedAt,
          vrfRequestId   |-> flowAssignments[i].vrfRequestId,
          randomnessUsed |-> flowAssignments[i].randomnessUsed ]]

\* assignRandomJudges(projectId, numJudges) up to the first await of selectJudges
AssignRandomJudgesCall(s) ==
    /\ task[s].pc = "idle"
    /\ \E allowedJudges \in AssignPools, numJudges \in AssignCounts, projectId \in ProjectIds :
         task' = [task EXCEPT ![s] =
                    EnterSelectJudges([IdleTask EXCEPT
                        !.op = "selectJudges",
                        !.caller = "assignRandomJudges",
                        !.requested = numJudges,
                        !.availableJudges = allowedJudges,
                        !.numJudges = Min(numJudges, Len(allowedJudges)),
                        !.projectId = projectId])]
    /\ UNCHANGED <<now, db, agentInstance>>

\* selectJudges has settled: its error propagates, its result is converted
AssignRandomJudgesReturn(s) ==
    /\ task[s].caller = "assignRandomJudges"
    /\ task[s].pc = "done"
    /\ task' = [task EXCEPT ![s] =
                  [task[s] EXCEPT !.pc = "returned",
                                  !.assignments = IF task[s].status = "ok"
                                                  THEN ToInternal(@) ELSE @]]
    /\ UNCHANGED <<now, db, agentInstance>>

NextAssign ==
    \/ \E s \in DOMAIN task : AssignRandomJudgesCall(s)
    \/ \E s \in DOMAIN task : RequestRandomnessDecode(s)
    \/ \E s \in DOMAIN task : RequestRandomnessReturn(s)
    \/ \E s \in DOMAIN task : GetMultipleStep(s)
    \/ \E s \in DOMAIN task : AssignRandomJudgesReturn(s)
    \/ Tick

SpecAssign == Init /\ [][NextAssign]_vars

(***************************************************************************)
(* FlowVRFService.validateFlowNetwork (lines 175-184), run next to          *)
(* selectJudges on the same service object.                                 *)
(***************************************************************************)
\* variant: only the mainnet identifier is recognised
IsFlowChainMainnetOnly(chainId) == chainId = 747

\* network.chainId === 545n || network.chainId === 747n
IsFlowChain(chainId) == chainId = 545 \/ chainId = 747

\* what provider.getNetwork() settles with
NetworkResponses ==
    {[kind |-> "network", chainId |-> c] : c \in {0, 1, 544, 545, 546, 646, 746, 747, 748}}
        \cup {[kind |-> "reject", chainId |-> 0]}

\* validateFlowNetwork() up to its await
ValidateFlowNetworkCall(s) ==
    /\ task[s].pc = "idle"
    /\ task' = [task EXCEPT ![s] =
                  [IdleTask EXCEPT !.op = "validateFlowNetwork", !.pc = "vfn_network"]]
    /\ UNCHANGED <<now, db, agentInstance>>

\* getNetwork() settles: the comparison, or the catch returning false
ValidateFlowNetworkReturn(s) ==
    /\ task[s].pc = "vfn_network"
    /\ \E r \in NetworkResponses :
         task' = [task EXCEPT ![s] =
                    [@ EXCEPT !.pc = "done", !.status = "ok", !.network = r,
                              !.valid = IF r.kind = "reject" THEN FALSE
                                        ELSE IsFlowChain(r.chainId)]]
    /\ UNCHANGED <<now, db, agentInstance>>

NextNetwork ==
    \/ \E s \in DOMAIN task : SelectJudgesCall(s)
    \/ \E s \in DOMAIN task : RequestRandomnessDecode(s)
    \/ \E s \in DOMAIN task : RequestRandomnessReturn(s)
    \/ \E s \in DOMAIN task : GetMultipleStep(s)
    \/ \E s \in DOMAIN task : ValidateFlowNetworkCall(s)
    \/ \E s \in DOMAIN task : ValidateFlowNetworkReturn(s)
    \/ \E s \in DOMAIN task : Settle(s)
    \/ Tick

SpecNetwork == InitPair /\ [][NextNetwork]_vars

(***************************************************************************)
(* getUnifiedDJAgent and UnifiedDJAgent (part_002, lines 171-195, 671-694): *)
(* the process-wide agent and the judge pool it was constructed with.       *)
(***************************************************************************)
WithJudges(allowedJudges) == [hasJudges |-> TRUE, allowedJudges |-> allowedJudges]

\* new UnifiedDJAgent(config || {}): the pool is config.allowedJudges || []
NewUnifiedDJAgent(instance, config) ==
    [ constructed   |-> instance.constructed + 1,
      allowedJudges |-> IF config.hasJudges THEN config.allowedJudges ELSE <<>> ]

\* variant: no check of agentInstance, a new agent on every call
GetUnifiedDJAgentAlwaysNew(instance, config) ==
    NewUnifiedDJAgent(instance, config)

\* if (!agentInstance) agentInstance = new UnifiedDJAgent(config || {}); return agentInstance
GetUnifiedDJAgent(instance, config) ==
    IF instance.constructed = 0 THEN NewUnifiedDJAgent(instance, config) ELSE instance

AgentConfigs == {NoConfig} \cup {WithJudges(Pool(n)) : n \in {0, 2, 3}}

\* the numJudges argument of assignJudgesToProject; 3 is the default
AgentCounts == {2, 3}

\* getUnifiedDJAgent(config).assignJudgesToProject(projectId, numJudges) up to the
\* first await of selectJudges
AgentAssignCall(s) ==
    /\ task[s].pc = "idle"
    /\ \E config \in AgentConfigs, numJudges \in AgentCounts, projectId \in ProjectIds :
         LET agent == GetUnifiedDJAgent(agentInstance, config)
         IN /\ agentInstance' = agent
            /\ task' = [task EXCEPT ![s] =
                          EnterSelectJudges([IdleTask EXCEPT
                              !.op = "selectJudges",
                              !.caller = "assignRandomJudges",
                              !.config = config,
                              !.requested = numJudges,
                              !.availableJudges = agent.allowedJudges,
                              !.numJudges = Min(numJudges, Len(agent.allowedJudges)),
                              !.projectId = projectId])]
    /\ UNCHANGED <<now, db>>

\* the caller takes what assignJudgesToProject returned or threw
AgentAssignTaken(s) ==
    /\ task[s].pc = "returned"
    /\ task' = [task EXCEPT ![s] = IdleTask]
    /\ UNCHANGED <<now, db, agentInstance>>

NextAgent ==
    \/ \E s \in DOMAIN task : AgentAssignCall(s)
    \/ \E s \in DOMAIN task : RequestRandomnessDecode(s)
    \/ \E s \in DOMAIN task : RequestRandomnessReturn(s)
    \/ \E s \in DOMAIN task : GetMultipleStep(s)
    \/ \E s \in DOMAIN task : AssignRandomJudgesReturn(s)
    \/ \E s \in DOMAIN task : AgentAssignTaken(s)
    \/ Tick

SpecAgent == Init /\ [][NextAgent]_vars

(***************************************************************************)
(* The submit handler (frontend/app/api/submit/route.ts, POST, lines        *)
(* 188-361) and the judge_assignments table it writes (supabase.sql, lines  *)
(* 94-100).  SupabaseService is imported from a module outside the sources. *)
(***************************************************************************)
\* ALLOWED_EMAILS, split and lower-cased; e-mail addresses are numbered from 101
JudgePool(n) == [i \in 1..n |-> 100 + i]

SubmitPools == {JudgePool(n) : n \in 0..MaxN}

BodyFields == <<"name", "description", "project_url", "submitter">>

\* the request body: which of the four fields are present and non-empty
SubmitBodies == [{"name", "description", "project_url", "submitter"} -> BOOLEAN]

\* errors.push("<field> is required") for each missing field, in order
ValidationErrors(body) == SelectSeq(BodyFields, LAMBDA f : ~body[f])

Respond(t, status, body) ==
    [t EXCEPT !.pc = "responded", !.response = [status |-> status, body |-> body]]

\* the response of a submission that got as far as the project row
SuccessResponse(t) ==
    [ success  |-> TRUE,
      txHash   |-> "0xtx",
      tokenId  |-> t.tokenId,
      teamId   |-> 1,
      ipfsURI  |-> "ipfs://metadata",
      imageURI |-> "ipfs://image",
      projectId |-> t.projectId,
      message  |-> "Project submitted successfully! Judges will be assigned privately via VRF." ]

\* variant: the judge is passed where the request id belongs
SaveVRFAssignmentArgsWithJudge(projectId, assignment) ==
    <<projectId, assignment.judgeEmail, assignment.randomnessUsed>>

\* SupabaseService.saveVRFAssignment(projectId, assignment.vrfRequestId,
\*                                   assignment.randomnessUsed)
SaveVRFAssignmentArgs(projectId, assignment) ==
    <<projectId, assignment.vrfRequestId, assignment.randomnessUsed>>

\* the row a successful saveVRFAssignment adds to judge_assignments
SaveVRFAssignment(rows, args, tnow) ==
    Append(rows, [ id              |-> Len(rows) + 1,
                   project_id      |-> args[1],
                   vrf_request_id  |-> args[2],
                   randomness_used |-> args[3],
                   assigned_at     |-> tnow ])

\* the row a successful saveProject adds to projects
SaveProject(rows, projectId, tnow) ==
    Append(rows, [id |-> projectId, team_id |-> 1, submitted_at |-> tnow])

\* POST up to its first await: the body is validated
PostCall(s) ==
    /\ task[s].pc = "idle"
    /\ \E body \in SubmitBodies :
         LET errors == ValidationErrors(body)
             t == [IdleTask EXCEPT !.op = "POST", !.caller = "POST"]
         IN task' = [task EXCEPT ![s] =
                       IF errors # <<>>
                       THEN Respond(t, 400, [success |-> FALSE, errors |-> errors])
                       ELSE [t EXCEPT !.pc = "post_upstream"]]
    /\ UNCHANGED <<now, db, agentInstance>>

\* steps 1-5: team id, pinning and minting settle; on success the project row
\* is handed to saveProject
PostUpstream(s) ==
    /\ task[s].pc = "post_upstream"
    /\ \E settles \in {"ok", "throw"}, tokenId \in {"", "7"}, projectId \in ProjectIds :
         task' = [task EXCEPT ![s] =
                    IF settles = "throw"
                    THEN Respond(task[s], 500, [success |-> FALSE, error |-> "upstream"])
                    ELSE [task[s] EXCEPT !.pc = "post_project",
                                         !.tokenId = tokenId, !.projectId = projectId]]
    /\ UNCHANGED <<now, db, agentInstance>>

\* step 6: await SupabaseService.saveProject(projectData) settles; on success the
\* agent module is imported
PostProjectSaved(s) ==
    /\ task[s].pc = "post_project"
    /\ \E settles \in {"ok", "throw"} :
         IF settles = "throw"
         THEN /\ task' = [task EXCEPT ![s] =
                            Respond(task[s], 500, [success |-> FALSE, error |-> "saveProject"])]
              /\ UNCHANGED db
         ELSE /\ db' = [db EXCEPT !.projects = SaveProject(@, task[s].projectId, now)]
              /\ task' = [task EXCEPT ![s] = [@ EXCEPT !.pc = "post_agent"]]
    /\ UNCHANGED <<now, agentInstance>>

\* step 7: the import settles; getUnifiedDJAgent({..., allowedJudges}) and
\* agent.assignJudgesToProject(projectId, 2), which runs selectJudges up to its
\* first await
PostAssignCall(s) ==
    /\ task[s].pc = "post_agent"
    /\ \E allowedJudges \in SubmitPools :
         LET config == WithJudges(allowedJudges)
             agent == GetUnifiedDJAgent(agentInstance, config)
         IN /\ agentInstance' = agent
            /\ task' = [task EXCEPT ![s] =
                          EnterSelectJudges([task[s] EXCEPT
                              !.op = "selectJudges",
                              !.config = config,
                              !.requested = 2,
                              !.availableJudges = agent.allowedJudges,
                              !.numJudges = Min(2, Len(agent.allowedJudges))])]
    /\ UNCHANGED <<now, db>>

\* variant: no inner try/catch, the failure reaches the handler's outer catch
AgentErrorRethrown(t) ==
    Respond(t, 500, [success |-> FALSE, error |-> t.status])

\* catch (agentError) { log; continue } and the response after it (lines 327-346)
AgentErrorCaught(t) ==
    Respond(t, 200, SuccessResponse(t))

\* assignJudgesToProject has settled: a failure is caught and logged, a result is
\* converted and its first record handed to saveVRFAssignment
PostAfterAssign(s) ==
    LET t == task[s]
        assignments == ToInternal(t.assignments)
    IN /\ t.caller = "POST" /\ t.pc = "done"
       /\ task' = [task EXCEPT ![s] =
                     IF t.status # "ok" THEN AgentErrorCaught(t)
                     ELSE IF Len(assignments) = 0 THEN Respond(t, 200, SuccessResponse(t))
                     ELSE [t EXCEPT !.pc = "save", !.assignments = assignments]]
       /\ UNCHANGED <<now, db, agentInstance>>

\* one await SupabaseService.saveVRFAssignment(...) of the for loop settles
PostSaveStep(s) ==
    LET t == task[s]
        args == SaveVRFAssignmentArgs(t.projectId, t.assignments[t.saved + 1])
    IN /\ t.caller = "POST" /\ t.pc = "save"
       /\ \E settles \in {"ok", "throw"} :
            IF settles = "throw"
            THEN /\ task' = [task EXCEPT ![s] =
                               AgentErrorCaught([t EXCEPT !.storeFailed = TRUE])]
                 /\ UNCHANGED db
            ELSE /\ db' = [db EXCEPT !.judge_assignments = SaveVRFAssignment(@, args, now)]
                 /\ task' = [task EXCEPT ![s] =
                               IF t.saved + 1 >= Len(t.assignments)
                               THEN Respond([t EXCEPT !.saved = @ + 1], 200,
                                            SuccessResponse(t))
                               ELSE [t EXCEPT !.saved = @ + 1]]
       /\ UNCHANGED <<now, agentInstance>>

NextSubmit ==
    \/ \E s \in DOMAIN task : PostCall(s)
    \/ \E s \in DOMAIN task : PostUpstream(s)
    \/ \E s \in DOMAIN task : PostProjectSaved(s)
    \/ \E s \in DOMAIN task : PostAssignCall(s)
    \/ \E s \in DOMAIN task : RequestRandomnessDecode(s)
    \/ \E s \in DOMAIN task : RequestRandomnessReturn(s)
    \/ \E s \in DOMAIN task : GetMultipleStep(s)
    \/ \E s \in DOMAIN task : PostAfterAssign(s)
    \/ \E s \in DOMAIN task : PostSaveStep(s)
    \/ Tick

SpecSubmit == Init /\ [][NextSubmit]_vars

(***************************************************************************)
(* The selection loop of selectJudges (lines 121-148) as a function of its  *)
(* local state, applied one iteration at a time to every combination of     *)
(* value, candidate count, pick number and used set.                        *)
(***************************************************************************)
\* the records of the picks that took the positions in `used`, lowest first
RECURSIVE FrameSelected(_, _, _)
FrameSelected(availableJudges, vrfResult, used) ==
    IF used = {} THEN <<>>
    ELSE LET p == CHOOSE q \in used : \A r \in used : q <= r
         IN <<MakeAssignment(availableJudges, "p1", vrfResult,
                             <<BigIntOfHex(vrfResult.randomness)>>, 0,
                             [judgeIndex |-> p, attempts |-> 1], 0)>>
            \o FrameSelected(availableJudges, vrfResult, used \ {p})

LoopFrame(n, k, i, used, v) ==
    LET vrfResult == [randomness |-> toBeHex(v), requestId |-> 1,
                      blockHeight |-> 1, timestamp |-> 0]
    IN [IdleTask EXCEPT !.op = "selectJudges", !.pc = "loop",
                        !.availableJudges = Pool(n), !.numJudges = k,
                        !.projectId = "p1", !.vrfResult = vrfResult,
                        !.randomValues = [j \in 1..(k - 1) |-> v],
                        !.i = i, !.usedIndices = used,
                        !.selectedJudges = FrameSelected(Pool(n), vrfResult, used)]

\* the uint64 values the loop is applied to
LoopValues == {<<>>, <<4>>, <<7>>, <<12>>, MaxUint64}

InitLoop ==
    /\ \E n \in 1..MaxN : \E k \in 1..n : \E i \in 0..(k - 1) :
         \E used \in SUBSET (0..(n - 1)) : \E v \in LoopValues :
            task = [s \in {1} |-> LoopFrame(n, k, i, used, v)]
    /\ now = 0
    /\ db = EmptyDb
    /\ agentInstance = NoAgent

\* one iteration of for (let i = 0; i < numJudges; i++), and the return after
\* the last one
LoopIteration(s) ==
    LET t == task[s]
        allRandomValues == AllRandomValues(t.vrfResult, t.randomValues)
        f == FindUnused(allRandomValues[t.i + 1], Len(t.availableJudges), t.usedIndices, 0)
        t1 == [t EXCEPT !.attempts = f.attempts, !.judgeIndex = f.judgeIndex,
                        !.usedBefore = t.usedIndices]
        pushed == Append(t.selectedJudges,
                         MakeAssignment(t.availableJudges, t.projectId, t.vrfResult,
                                        allRandomValues, t.i, f, now))
        t2 == [t1 EXCEPT !.i = @ + 1, !.usedIndices = @ \cup {f.judgeIndex},
                         !.selectedJudges = pushed]
    IN /\ t.op = "selectJudges" /\ t.pc = "loop"
       /\ task' = [task EXCEPT ![s] =
                      IF f.judgeIndex \in t.usedIndices
                      THEN Throw(t1, ErrDuplicateSelection)
                      ELSE IF t.i + 1 >= t.numJudges
                      THEN [t2 EXCEPT !.pc = "done", !.status = "ok",
                                      !.assignments = pushed]
                      ELSE t2]
       /\ UNCHANGED <<now, db, agentInstance>>

NextLoop == \E s \in DOMAIN task : LoopIteration(s)

SpecLoop == InitLoop /\ [][NextLoop]_vars

(***************************************************************************)
(* selectJudges from line 116 on, as a function of the candidates, k and    *)
(* the k values drawn, applied to every sequence of small values.           *)
(***************************************************************************)
\* the uint64 values 0..MaxN: every position of a list of up to MaxN candidates
\* is the residue of one of them
SmallValues == {BigIntOfNumber(v) : v \in 0..MaxN}

\* a selectJudges call over n candidates that has drawn `values`
DrawnFrame(n, k, values) ==
    [IdleTask EXCEPT !.op = "selectJudges", !.pc = "drawn",
                     !.availableJudges = Pool(n), !.numJudges = k,
                     !.projectId = "p1",
                     !.vrfResult = [randomness |-> toBeHex(values[1]), requestId |-> 1,
                                    blockHeight |-> 1, timestamp |-> 0],
                     !.randomValues = Tail(values),
                     !.oracleCalls = k, !.loopCalls = k - 1,
                     !.drawn = values,
                     !.replies = [j \in 1..k |-> "value"]]

InitDrawn ==
    /\ \E n \in 1..MaxN : \E k \in 1..n : \E values \in [1..k -> SmallValues] :
          task = [s \in {1} |-> DrawnFrame(n, k, values)]
    /\ now = 0
    /\ db = EmptyDb
    /\ agentInstance = NoAgent

\* lines 116-150 on the values drawn
SelectFromDrawn(s) ==
    /\ task[s].pc = "drawn"
    /\ task' = [task EXCEPT ![s] = FinishSelect(task[s], task[s].randomValues, now)]
    /\ UNCHANGED <<now, db, agentInstance>>

NextDrawn == \E s \in DOMAIN task : SelectFromDrawn(s)

SpecDrawn == InitDrawn /\ [][NextDrawn]_vars

(***************************************************************************)
(* Properties.                                                             *)
(***************************************************************************)
Tasks == {task[s] : s \in DOMAIN task}

IsSelect(t) == t.op = "selectJudges"
Done(t) == t.pc = "done"
Succeeded(t) == t.pc = "done" /\ t.status = "ok"

Distinct(seq) == \A i, j \in 1..Len(seq) : i # j => seq[i] # seq[j]

JudgesOf(t) == [i \in 1..Len(t.assignments) |-> t.assignments[i].judgeEmail]
RequestIdsOf(t) == [i \in 1..Len(t.assignments) |-> t.assignments[i].vrfRequestId]
RandomnessOf(t) == [i \in 1..Len(t.assignments) |-> t.assignments[i].randomnessUsed]

\* the failures of the remote calls, as opposed to those of the arguments
RemoteFailures == {ErrVRFRequestFailed, ErrCallException, ErrBadData}

ValidSelect(t) ==
    IsSelect(t) /\ 1 <= t.numJudges /\ t.numJudges <= Len(t.availableJudges)

\* the hex text of the oracle values of the model, written out
KnownHex(v) ==
    CASE v = <<>>      -> <<"0", "x", "0", "0">>
      [] v = <<4>>     -> <<"0", "x", "0", "4">>
      [] v = <<7>>     -> <<"0", "x", "0", "7">>
      [] v = <<12>>    -> <<"0", "x", "0", "c">>
      [] v = MaxUint64 -> <<"0", "x">> \o [i \in 1..16 |-> "f"]

\* the residue of an oracle value of the model, from its numeric value
RECURSIVE PowMod(_, _, _)
PowMod(b, e, m) == IF e = 0 THEN 1 % m ELSE (b * PowMod(b, e - 1, m)) % m

KnownMod(v, m) ==
    IF v = MaxUint64 THEN (PowMod(2, 64, m) + m - 1) % m
    ELSE IF v = <<>> THEN 0
    ELSE v[1] % m

\* C1: for n pairwise-distinct candidates, 1 <= k <= n and remote calls that all
\* succeed, selectJudges returns exactly k assignments with pairwise-distinct judges.
C1_SelectReturnsKDistinct ==
    \A t \in Tasks :
        (ValidSelect(t) /\ Done(t) /\ Distinct(t.availableJudges)
            /\ t.status \notin RemoteFailures)
        => /\ t.status = "ok"
           /\ Len(t.assignments) = t.numJudges
           /\ Distinct(JudgesOf(t))

\* C1, k - 1 within the ceiling of getMultipleRandomValues: the statement above holds
\* for 1 <= k <= min(n, MaxRandomValues + 1).
C1_SelectReturnsKDistinctWithinCeiling ==
    \A t \in Tasks :
        (ValidSelect(t) /\ Done(t) /\ Distinct(t.availableJudges)
            /\ t.numJudges <= MaxRandomValues + 1
            /\ t.status \notin RemoteFailures)
        => /\ t.status = "ok"
           /\ Len(t.assignments) = t.numJudges
           /\ Distinct(JudgesOf(t))

\* C2: selectJudges with k greater than the number of candidates (n = 0 included)
\* fails at once with InsufficientCandidates and returns no assignments.
C2_InsufficientCandidates ==
    \A t \in Tasks :
        (IsSelect(t) /\ t.numJudges > Len(t.availableJudges))
        => /\ Done(t)
           /\ t.status = ErrInsufficientCandidates
           /\ t.assignments = <<>>

C2_Witness ==
    \E t \in Tasks :
        /\ IsSelect(t) /\ t.availableJudges = <<>> /\ t.numJudges = 1
        /\ Done(t) /\ t.status = ErrInsufficientCandidates

\* C3: selectJudges with k <= 0 fails at once, for every candidate list, with
\* InvalidCount, an error other than InsufficientCandidates, and returns no assignments.
C3_InvalidJudgeCount ==
    /\ ErrInvalidJudgeCount # ErrInsufficientCandidates
    /\ \A t \in Tasks :
        (IsSelect(t) /\ t.numJudges <= 0)
        => /\ Done(t)
           /\ t.status = ErrInvalidJudgeCount
           /\ t.assignments = <<>>

C3_Witness ==
    \E t \in Tasks :
        /\ IsSelect(t) /\ t.availableJudges = <<>> /\ t.numJudges = 0
        /\ Done(t) /\ t.status = ErrInvalidJudgeCount

\* C4: two selectJudges runs with the same candidates, k and projectId that were
\* given the same sequence of oracle values return the same judges in the same
\* order with the same randomnessUsed (request ids and timestamps may differ).
C4_DeterministicInOracleValues ==
    \A s1, s2 \in DOMAIN task :
        LET a == task[s1]
            b == task[s2]
        IN (/\ IsSelect(a) /\ IsSelect(b) /\ Succeeded(a) /\ Succeeded(b)
            /\ a.availableJudges = b.availableJudges
            /\ a.numJudges = b.numJudges
            /\ a.projectId = b.projectId
            /\ a.drawn = b.drawn)
           => /\ JudgesOf(a) = JudgesOf(b)
              /\ RandomnessOf(a) = RandomnessOf(b)

C4_Witness ==
    \E s1, s2 \in DOMAIN task :
        LET a == task[s1]
            b == task[s2]
        IN /\ s1 # s2
           /\ IsSelect(a) /\ IsSelect(b) /\ Succeeded(a) /\ Succeeded(b)
           /\ a.availableJudges = b.availableJudges
           /\ a.numJudges = b.numJudges
           /\ a.projectId = b.projectId
           /\ a.drawn = b.drawn
           /\ a.drawn[1] = a.drawn[2]
           /\ RequestIdsOf(a) # RequestIdsOf(b)
           /\ a.assignments[1].assignedAt # b.assignments[1].assignedAt

\* C5: for k >= 2 the vrfRequestId values of the assignments of one selectJudges
\* call are pairwise distinct, each being the request id of the draw behind its pick.
C5_RequestIdPerPick ==
    \A t \in Tasks :
        (IsSelect(t) /\ Succeeded(t) /\ t.numJudges >= 2) => Distinct(RequestIdsOf(t))

\* C6: the randomnessUsed of the i-th assignment is the hex text of the i-th oracle
\* value as drawn, not of the value after the collision offset; pick 0 included,
\* whose value went through toBeHex and BigInt.
C6_RandomnessUsedIsRawDraw ==
    \A t \in Tasks :
        (IsSelect(t) /\ Succeeded(t))
        => /\ Len(t.assignments) = Len(t.drawn)
           /\ \A i \in 1..Len(t.assignments) :
                t.assignments[i].randomnessUsed = KnownHex(t.drawn[i])

\* two candidates, draws 4 and 4: the second pick is resolved by offset 1
C6_Witness ==
    \E t \in Tasks :
        /\ IsSelect(t) /\ Succeeded(t)
        /\ t.availableJudges = Pool(2) /\ t.numJudges = 2
        /\ t.drawn = << <<4>>, <<4>> >>
        /\ JudgesOf(t) = <<1, 2>>
        /\ t.assignments[2].randomnessUsed = <<"0", "x", "0", "4">>

\* C7: a selectJudges call with 1 <= k <= n never issues more than k oracle calls,
\* and a successful one has issued exactly k: one in requestRandomness and k - 1 in
\* getMultipleRandomValues (none there when k = 1), collisions or not.
C7_OracleCallsPerSelection ==
    \A t \in Tasks :
        ValidSelect(t)
        => /\ t.oracleCalls <= t.numJudges
           /\ Succeeded(t) => /\ t.oracleCalls = t.numJudges
                              /\ t.loopCalls = t.numJudges - 1
                              /\ t.oracleCalls - t.loopCalls = 1

\* three candidates, draws 7, 7, 7: picks 1 and 2 collide and are resolved locally
C7_Witness ==
    \E t \in Tasks :
        /\ ValidSelect(t) /\ Succeeded(t)
        /\ t.availableJudges = Pool(3) /\ t.numJudges = 3
        /\ t.drawn = << <<7>>, <<7>>, <<7>> >>
        /\ JudgesOf(t) = <<2, 3, 1>>
        /\ t.oracleCalls = 3

\* C8: getMultipleRandomValues(count) with 1 <= count <= 50 and an oracle that
\* answers every call issues exactly count oracle calls and returns exactly count
\* values, in the order the oracle produced them.
C8_GetMultipleCallsAndOrder ==
    \A t \in Tasks :
        (t.op = "getMultipleRandomValues" /\ 1 <= t.count /\ t.count <= MaxRandomValues)
        => /\ t.oracleCalls <= t.count
           /\ Done(t) => t.status \in {"ok", ErrCallException, ErrBadData}
           /\ Succeeded(t) => /\ t.oracleCalls = t.count
                              /\ Len(t.values) = t.count
                              /\ t.values = t.drawn

C8_Witness ==
    \E t \in Tasks :
        /\ t.op = "getMultipleRandomValues" /\ Succeeded(t)
        /\ t.count = 2 /\ t.values = << <<7>>, <<12>> >> /\ t.oracleCalls = 2

\* C9: getMultipleRandomValues(count) fails with InvalidCount for count <= 0 and
\* with another error, TooManyRequested, for count > 50; count = 1 and count = 50
\* pass the checks.
C9_GetMultipleCountChecks ==
    /\ ErrInvalidCount # ErrTooManyRequested
    /\ \A t \in Tasks :
        t.op = "getMultipleRandomValues"
        => /\ t.count <= 0 => (Done(t) /\ t.status = ErrInvalidCount /\ t.oracleCalls = 0)
           /\ t.count > MaxRandomValues
                => (Done(t) /\ t.status = ErrTooManyRequested /\ t.oracleCalls = 0)
           /\ (1 <= t.count /\ t.count <= MaxRandomValues)
                => (t.status \notin {ErrInvalidCount, ErrTooManyRequested}
                    /\ t.oracleCalls >= 1)

C9_Witness ==
    \E t \in Tasks :
        /\ t.op = "getMultipleRandomValues" /\ t.count = MaxRandomValues
        /\ Succeeded(t) /\ Len(t.values) = MaxRandomValues

OracleFailed(t) == \E i \in 1..Len(t.replies) : t.replies[i] # "value"

ReachesOracle(t) ==
    t.op \in {"requestRandomness", "getMultipleRandomValues", "getRandomInRange", "selectJudges"}

\* C11: getRandomInRange(min, max) with max < min fails at once with InvalidRange
\* and returns no value.
C11_InvalidRange ==
    \A t \in Tasks :
        (t.op = "getRandomInRange" /\ t.max < t.min)
        => /\ Done(t)
           /\ t.status = ErrInvalidRange
           /\ t.drawn = <<>> /\ t.number = 0

C11_Witness ==
    \E t \in Tasks :
        /\ t.op = "getRandomInRange" /\ t.min = 0 /\ t.max = -1
        /\ Done(t) /\ t.status = ErrInvalidRange

\* C12: when the oracle call is rejected or answers malformed data,
\* requestRandomness fails and hands out no draw; a draw it does hand out
\* carries the hex text of the value the oracle returned to that call.
C12_NoDrawOnOracleFailure ==
    \A t \in Tasks :
        t.op = "requestRandomness"
        => /\ OracleFailed(t) => (Done(t) /\ t.status # "ok" /\ t.draw = NoVRFResult)
           /\ ~Succeeded(t) => t.draw = NoVRFResult
           /\ Succeeded(t) => (/\ t.replies = <<"value">>
                               /\ Len(t.drawn) = 1
                               /\ t.draw.randomness = KnownHex(t.drawn[1]))

C12_Witness ==
    \E t \in Tasks :
        /\ t.op = "requestRandomness" /\ t.replies = <<"malformed">>
        /\ Done(t) /\ t.status = ErrVRFRequestFailed /\ t.draw = NoVRFResult

\* C13: in every operation that reaches the oracle, a call that is rejected or
\* answers malformed data surfaces as the one error kind that requestRandomness
\* raises for it.
C13_OneOracleUnavailableKind ==
    \A t \in Tasks :
        (ReachesOracle(t) /\ OracleFailed(t)) => (Done(t) /\ t.status = ErrVRFRequestFailed)

\* C14: once a provider.call of an operation has failed, the operation has ended
\* in an error, that call is the last it issued, and it returns nothing: no
\* assignments, no values, no number, no draw.
C14_NoRetryNoPartialResult ==
    \A t \in Tasks :
        (ReachesOracle(t) /\ OracleFailed(t))
        => /\ Done(t) /\ t.status \in RemoteFailures
           /\ t.oracleCalls = Len(t.replies)
           /\ t.replies[Len(t.replies)] # "value"
           /\ \A i \in 1..(Len(t.replies) - 1) : t.replies[i] = "value"
           /\ t.assignments = <<>> /\ t.values = <<>>
           /\ t.number = 0 /\ t.draw = NoVRFResult

\* getMultipleRandomValues(3): two values arrive, the third call is rejected
C14_Witness ==
    \E t \in Tasks :
        /\ t.op = "getMultipleRandomValues" /\ t.count = 3
        /\ t.replies = <<"value", "value", "reject">>
        /\ Done(t) /\ t.status = ErrCallException
        /\ t.values = <<>> /\ t.oracleCalls = 3

\* The selection, stated from the numeric values alone: pick i takes position
\* (v[i] + a) mod n for the smallest a >= 0 whose position no earlier pick took.
SmallestOffset(r, n, used) ==
    CHOOSE a \in 0..(n - 1) :
        /\ ((r + a) % n) \notin used
        /\ \A b \in 0..(a - 1) : ((r + b) % n) \in used

RECURSIVE RefPositions(_, _, _)
RefPositions(values, n, used) ==
    IF values = <<>> THEN <<>>
    ELSE LET r == KnownMod(Head(values), n)
             p == (r + SmallestOffset(r, n, used)) % n
         IN <<p>> \o RefPositions(Tail(values), n, used \cup {p})

RefJudges(availableJudges, values) ==
    LET ps == RefPositions(values, Len(availableJudges), {})
    IN [i \in 1..Len(values) |-> availableJudges[ps[i] + 1]]

\* C15: every requestRandomness call, alone or inside selectJudges, eventually
\* completes, also when the oracle never answers: the wait is bounded and ends
\* in an error.
C15_EveryRequestCompletes ==
    (task[1].pc = "rr_call") ~> (task[1].pc = "done")

\* C16: selectJudges keeps nothing between or across invocations.  With two
\* invocations in flight or finished side by side, each one that meets no remote
\* failure succeeds, has consumed exactly the k values the oracle returned to it,
\* and returns the judges and randomnessUsed that follow from its own arguments
\* and those values alone, whatever the other invocation has drawn or selected.
C16_NoStateAcrossInvocations ==
    \A t \in Tasks :
        (IsSelect(t) /\ Done(t) /\ t.status \notin RemoteFailures)
        => /\ t.status = "ok"
           /\ Len(t.drawn) = t.numJudges /\ t.oracleCalls = t.numJudges
           /\ JudgesOf(t) = RefJudges(t.availableJudges, t.drawn)
           /\ RandomnessOf(t) = [i \in 1..t.numJudges |-> KnownHex(t.drawn[i])]
           /\ \A i \in 1..t.numJudges : t.assignments[i].projectId = t.projectId

\* two finished selections for different projects over the same list took the
\* same first judge, from different draws
C16_Witness ==
    \E s1, s2 \in DOMAIN task :
        LET a == task[s1]
            b == task[s2]
        IN /\ s1 # s2
           /\ IsSelect(a) /\ IsSelect(b) /\ Succeeded(a) /\ Succeeded(b)
           /\ a.projectId # b.projectId
           /\ a.availableJudges = Pool(3) /\ b.availableJudges = Pool(3)
           /\ a.drawn # b.drawn
           /\ JudgesOf(a) = <<2, 3>> /\ JudgesOf(b) = <<2, 3>>

\* C19: pick i of a selection takes position (value[i] + a) mod n for the smallest
\* a >= 0 whose position no earlier pick of the call took, pick 0 takes
\* value[0] mod n, and the judge recorded is the candidate at that position.
C19_PositionsBySmallestOffset ==
    \A t \in Tasks :
        (IsSelect(t) /\ Succeeded(t))
        => /\ JudgesOf(t) = RefJudges(t.availableJudges, t.drawn)
           /\ t.assignments[1].judgeEmail
                = t.availableJudges[KnownMod(t.drawn[1], Len(t.availableJudges)) + 1]
           /\ (t.availableJudges = Pool(3) /\ t.drawn = << <<7>>, <<12>> >>)
                => JudgesOf(t) = <<2, 1>>
           /\ (t.availableJudges = Pool(2) /\ t.drawn = << <<4>>, <<4>> >>)
                => JudgesOf(t) = <<1, 2>>

\* three candidates, draws 7 and 12: positions 1 and 0
C19_Witness ==
    \E t \in Tasks :
        /\ IsSelect(t) /\ Succeeded(t)
        /\ t.availableJudges = Pool(3) /\ t.numJudges = 2
        /\ t.drawn = << <<7>>, <<12>> >>
        /\ JudgesOf(t) = <<2, 1>>

\* C20: one pick evaluates at most 2n candidate positions.  When every position
\* is already used the pick stops after exactly 2n of them and the call fails
\* with "Failed to select unique judges", handing back no assignments; a pick
\* that does not fail records the first unused position and never a used one.
C20_PickProbesAtMostTwiceN ==
    \A t \in Tasks :
        LET n == Len(t.availableJudges)
            full == t.usedBefore = 0..(n - 1)
        IN (IsSelect(t) /\ t.attempts > 0)
           => /\ t.attempts <= 2 * n
              /\ full <=> t.status = ErrDuplicateSelection
              /\ full => /\ Done(t) /\ t.attempts = 2 * n
                         /\ t.assignments = <<>>
              /\ ~full => /\ t.judgeIndex \notin t.usedBefore
                          /\ t.usedIndices = t.usedBefore \cup {t.judgeIndex}
                          /\ t.selectedJudges[Len(t.selectedJudges)].judgeEmail
                               = t.availableJudges[t.judgeIndex + 1]
                          /\ Distinct([j \in 1..Len(t.selectedJudges) |->
                                          t.selectedJudges[j].judgeEmail])

\* a pick over two candidates, both already taken, fails after four positions
C20_Witness ==
    \E t \in Tasks :
        /\ IsSelect(t) /\ Done(t)
        /\ Len(t.availableJudges) = 2 /\ t.usedBefore = {0, 1}
        /\ t.selectedJudges # <<>>
        /\ t.attempts = 4
        /\ t.status = ErrDuplicateSelection /\ t.assignments = <<>>

\* C17: assignRandomJudges(projectId, numJudges) over a pool of n >= 1 distinct
\* judges, for numJudges >= 1 and remote calls that all succeed, returns exactly
\* min(numJudges, n) assignments with pairwise-distinct judges, and never fails
\* with "Not enough judges available".
C17_AssignReturnsMinDistinct ==
    \A t \in Tasks :
        (t.caller = "assignRandomJudges" /\ t.pc = "returned"
            /\ Len(t.availableJudges) >= 1 /\ t.requested >= 1
            /\ t.status \notin RemoteFailures)
        => /\ t.status = "ok"
           /\ Len(t.assignments) = Min(t.requested, Len(t.availableJudges))
           /\ Distinct(JudgesOf(t))

\* C18: in the submit handler the rows written to judge_assignments are, in
\* order, the triples (projectId, vrfRequestId, randomnessUsed) of the returned
\* assignments and nothing else: one row per assignment when no write is refused,
\* never a row carrying a judge identifier; and the HTTP response holds the
\* submission's own fields only, with no assignment and no judge in it.
C18_OnlyAuditTriplePersisted ==
    \A t \in Tasks :
        LET rows == db.judge_assignments
            judges == {t.availableJudges[i] : i \in 1..Len(t.availableJudges)}
        IN t.caller = "POST"
           => /\ Len(rows) <= Len(t.assignments)
              /\ Len(rows) = t.saved
              /\ \A j \in 1..Len(rows) :
                    /\ DOMAIN rows[j] = {"id", "project_id", "vrf_request_id",
                                         "randomness_used", "assigned_at"}
                    /\ rows[j].project_id = t.projectId
                    /\ rows[j].vrf_request_id = t.assignments[j].vrfRequestId
                    /\ rows[j].randomness_used = t.assignments[j].randomnessUsed
                    /\ rows[j].vrf_request_id \notin judges
                    /\ rows[j].id \notin judges
              /\ (t.pc = "responded" /\ t.status = "ok" /\ ~t.storeFailed)
                    => Len(rows) = Len(t.assignments)
              /\ \A j \in 1..Len(db.projects) :
                    DOMAIN db.projects[j] = {"id", "team_id", "submitted_at"}
              /\ (t.pc = "responded" /\ t.response.status = 200)
                    => /\ DOMAIN t.response.body
                            = {"success", "txHash", "tokenId", "teamId", "ipfsURI",
                               "imageURI", "projectId", "message"}
                       /\ t.response.body = SuccessResponse(t)
                       /\ t.response.body.teamId \notin judges

\* a submission answered with 200 after two judges of three were assigned and
\* both audit rows written
C18_Witness ==
    \E t \in Tasks :
        /\ t.caller = "POST" /\ t.pc = "responded" /\ t.response.status = 200
        /\ Len(t.availableJudges) = 3
        /\ Len(t.assignments) = 2 /\ Distinct(JudgesOf(t))
        /\ Len(db.judge_assignments) = 2

\* what the do-while of each pick of a selection did, replayed on the values the
\* call drew: the position it ended on and the number of positions it evaluated
RECURSIVE PickTrace(_, _, _)
PickTrace(values, n, used) ==
    IF values = <<>> THEN <<>>
    ELSE LET f == FindUnused(Head(values), n, used, 0)
         IN <<f>> \o PickTrace(Tail(values), n, used \cup {f.judgeIndex})

TraceOf(t) == PickTrace(t.drawn, Len(t.availableJudges), {})

\* C21: for 1 <= k <= n and any oracle values, selectJudges never fails with
\* "Failed to select unique judges"; the i-th pick (counting from 1) ends on an
\* unused position after evaluating at most i positions, so within n.
C21_DuplicateFailureUnreachable ==
    \A t \in Tasks :
        (ValidSelect(t) /\ Done(t))
        => /\ t.status # ErrDuplicateSelection
           /\ t.status = "ok"
                => LET trace == TraceOf(t)
                   IN \A i \in 1..t.numJudges :
                         /\ trace[i].attempts <= i
                         /\ trace[i].attempts <= Len(t.availableJudges)
                         /\ t.assignments[i].judgeEmail
                              = t.availableJudges[trace[i].judgeIndex + 1]

\* three picks of three from equal draws: the third pick evaluates three positions
C21_Witness ==
    \E t \in Tasks :
        /\ ValidSelect(t) /\ Succeeded(t)
        /\ t.numJudges = 3 /\ Len(t.availableJudges) = 3
        /\ t.drawn = << <<4>>, <<4>>, <<4>> >>
        /\ TraceOf(t)[3].attempts = 3

\* C22: argument checks come before any oracle traffic.  selectJudges failing
\* with "Not enough judges available" or "Number of judges must be positive",
\* getRandomInRange failing with "Invalid range", and getMultipleRandomValues
\* failing with "Count must be positive" or "Maximum 50 random values per
\* request" (called directly or from selectJudges) have issued no oracle call.
C22_ValidationBeforeOracle ==
    \A t \in Tasks :
        /\ (IsSelect(t) /\ t.status \in {ErrInsufficientCandidates, ErrInvalidJudgeCount})
              => t.oracleCalls = 0 /\ t.replies = <<>>
        /\ (t.op = "getRandomInRange" /\ t.status = ErrInvalidRange)
              => t.oracleCalls = 0 /\ t.replies = <<>>
        /\ (t.op = "getMultipleRandomValues"
              /\ t.status \in {ErrInvalidCount, ErrTooManyRequested})
              => t.oracleCalls = 0 /\ t.replies = <<>>
        /\ (IsSelect(t) /\ t.status \in {ErrInvalidCount, ErrTooManyRequested})
              => t.loopCalls = 0 /\ t.oracleCalls = 1

\* getMultipleRandomValues(51) has failed without a call
C22_Witness ==
    \E t \in Tasks :
        /\ t.op = "getMultipleRandomValues" /\ t.count = MaxRandomValues + 1
        /\ Done(t) /\ t.status = ErrTooManyRequested
        /\ t.oracleCalls = 0

\* the provider.call requests of an invocation that have not settled yet
Outstanding(t) == t.oracleCalls - Len(t.replies)

\* C23: the oracle calls of one selectJudges call are strictly sequential.  At
\* most one is outstanding at any moment, and exactly when the call is suspended
\* on it; every earlier call has settled before the next is issued; and the
\* values the picks use are the responses in the order the calls were issued.
C23_OracleCallsSequential ==
    \A t \in Tasks :
        IsSelect(t)
        => /\ Outstanding(t) \in {0, 1}
           /\ Outstanding(t) = 1 <=> t.pc \in {"rr_call", "gm_call"}
           /\ \A j \in 1..(Len(t.replies) - 1) : t.replies[j] = "value"
           /\ Len(t.drawn) = Cardinality({j \in 1..Len(t.replies) : t.replies[j] = "value"})
           /\ t.pc = "gm_call"
                => /\ Len(t.randomValues) = t.loopCalls - 1
                   /\ Len(t.drawn) = t.oracleCalls - 1
                   /\ \A j \in 1..Len(t.randomValues) : t.randomValues[j] = t.drawn[j + 1]
           /\ Succeeded(t)
                => RandomnessOf(t) = [i \in 1..t.numJudges |-> KnownHex(t.drawn[i])]

\* the third call of a selection is outstanding, the first two have answered
C23_Witness ==
    \E t \in Tasks :
        /\ IsSelect(t) /\ t.pc = "gm_call" /\ t.numJudges = 3
        /\ t.oracleCalls = 3 /\ Len(t.replies) = 2
        /\ t.drawn = << <<7>>, <<12>> >>

\* C24: every random value handed out comes from an oracle call of its own.  A
\* successful selectJudges has issued one call per pick and pick i uses the i-th
\* response and no other; getMultipleRandomValues returns the responses of its
\* own calls; requestRandomness and getRandomInRange return the one value of
\* their one call; and no operation holds more values than calls it has issued.
C24_OneOracleCallPerValue ==
    \A t \in Tasks :
        /\ Len(t.drawn) <= t.oracleCalls
        /\ (IsSelect(t) /\ Succeeded(t))
              => /\ t.oracleCalls = Len(t.assignments)
                 /\ Len(t.drawn) = Len(t.assignments)
                 /\ \A i \in 1..Len(t.assignments) :
                       t.assignments[i].randomnessUsed = KnownHex(t.drawn[i])
                 /\ JudgesOf(t) = RefJudges(t.availableJudges, t.drawn)
        /\ (t.op = "getMultipleRandomValues" /\ Succeeded(t))
              => /\ t.values = t.drawn
                 /\ Len(t.values) <= t.oracleCalls
        /\ (t.op = "requestRandomness" /\ Succeeded(t))
              => /\ t.oracleCalls = 1
                 /\ t.draw.randomness = KnownHex(t.drawn[1])
        /\ (t.op = "getRandomInRange" /\ Succeeded(t))
              => /\ t.oracleCalls = 1 /\ Len(t.drawn) = 1
                 /\ t.number = t.min + KnownMod(t.drawn[1], t.max - t.min + 1)

\* two picks from two calls whose responses differ
C24_Witness ==
    \E t \in Tasks :
        /\ IsSelect(t) /\ Succeeded(t) /\ t.numJudges = 2
        /\ t.oracleCalls = 2
        /\ t.drawn = << <<4>>, <<7>> >>
        /\ RandomnessOf(t) = <<KnownHex(<<4>>), KnownHex(<<7>>)>>

\* C25: selectJudges selects positions, not identifiers, and never removes
\* repeated entries of the candidate list.  For any list, repeated entries
\* included, a call with 1 <= k <= min(n, 51) and no remote failure succeeds with
\* k assignments taken at pairwise-distinct positions; where one identifier sits
\* at two positions, both can be selected (C25_Witness).
C25_PositionsNotIdentifiers ==
    \A t \in Tasks :
        (ValidSelect(t) /\ Done(t) /\ t.status \notin RemoteFailures
            /\ t.numJudges <= MaxRandomValues + 1)
        => LET positions == RefPositions(t.drawn, Len(t.availableJudges), {})
           IN /\ t.status = "ok"
              /\ Len(t.assignments) = t.numJudges
              /\ Distinct(positions)
              /\ \A i \in 1..t.numJudges :
                    t.assignments[i].judgeEmail = t.availableJudges[positions[i] + 1]

\* a list whose last entry repeats its first: one judge is assigned twice
C25_Witness ==
    \E t \in Tasks :
        /\ IsSelect(t) /\ Succeeded(t)
        /\ t.availableJudges = PoolWithRepeat(3) /\ t.numJudges = 3
        /\ RefPositions(t.drawn, 3, {}) = <<0, 1, 2>>
        /\ JudgesOf(t) = <<1, 2, 1>>

C27_ValidateFlowNetwork ==
    \A t \in Tasks :
        /\ (t.op = "validateFlowNetwork" /\ Done(t))
              => /\ t.status = "ok"
                 /\ t.oracleCalls = 0
                 /\ t.valid <=> (t.network.kind = "network" /\ t.network.chainId \in {545, 747})
        /\ (IsSelect(t) /\ Done(t) /\ t.status \notin RemoteFailures)
              => /\ t.status = "ok"
                 /\ JudgesOf(t) = RefJudges(t.availableJudges, t.drawn)

\* the network is not a Flow network, and the selection beside it succeeded
C27_Witness ==
    \E s1, s2 \in DOMAIN task :
        /\ task[s1].op = "validateFlowNetwork" /\ Done(task[s1])
        /\ task[s1].network = [kind |-> "network", chainId |-> 1]
        /\ ~task[s1].valid
        /\ IsSelect(task[s2]) /\ Succeeded(task[s2])

\* the ordered choices of k pairwise-distinct positions among n
PositionChoices(k, n) == {target \in [1..k -> 0..(n - 1)] : Distinct(target)}

\* the judges selectJudges returns over Pool(n) when it draws `values`
JudgesDrawing(n, k, values) ==
    LET t == FinishSelect(DrawnFrame(n, k, values), Tail(values), 0)
    IN IF t.status = "ok" THEN JudgesOf(t) ELSE <<>>

C29_CeilingInsideSelect ==
    \A t \in Tasks :
        (ValidSelect(t) /\ Done(t) /\ t.status \notin RemoteFailures)
        => IF t.numJudges >= MaxRandomValues + 2
           THEN /\ t.status = ErrTooManyRequested
                /\ t.oracleCalls = 1 /\ t.loopCalls = 0
                /\ Len(t.drawn) = 1
                /\ t.assignments = <<>>
           ELSE /\ t.status = "ok"
                /\ Len(t.assignments) = t.numJudges

\* 52 of 52 candidates: one draw, then the refusal
C29_Witness ==
    \E t \in Tasks :
        /\ IsSelect(t) /\ Done(t)
        /\ Len(t.availableJudges) = 52 /\ t.numJudges = 52
        /\ t.status = ErrTooManyRequested
        /\ t.oracleCalls = 1 /\ t.assignments = <<>>

IsPrefix(a, b) == Len(a) <= Len(b) /\ \A i \in 1..Len(a) : a[i] = b[i]

ProjectSaved(t) == \E j \in 1..Len(db.projects) : db.projects[j].id = t.projectId

\* C30: the submit handler saves the project before it attempts the judge
\* assignment, and swallows every failure of the assignment or of writing its
\* audit rows (oracle failure, an empty pool's "Number of judges must be
\* positive", a refused write): the project row stays, rows already written
\* stay, and the response is 200 with success and the projectId.
C30_AssignmentFailureSwallowed ==
    /\ [](\A t \in Tasks :
            t.caller = "POST"
            => /\ (t.op = "selectJudges" \/ t.pc = "post_agent") => ProjectSaved(t)
               /\ (t.pc = "responded" /\ t.response.status = 500)
                    => t.oracleCalls = 0 /\ agentInstance = NoAgent
                         /\ db.judge_assignments = <<>>
               /\ (t.pc = "responded" /\ ProjectSaved(t))
                    => /\ t.response.status = 200
                       /\ t.response.body.success
                       /\ t.response.body.projectId = t.projectId
                       /\ Len(db.judge_assignments) = t.saved)
    /\ [][/\ IsPrefix(db.projects, db.projects')
          /\ IsPrefix(db.judge_assignments, db.judge_assignments')]_vars

\* the second audit write was refused: the first row and the project stay and
\* the handler answers with success
C30_Witness ==
    \E t \in Tasks :
        /\ t.caller = "POST" /\ t.pc = "responded"
        /\ t.storeFailed /\ Len(t.assignments) = 2
        /\ Len(db.judge_assignments) = 1
        /\ ProjectSaved(t)
        /\ t.response.status = 200 /\ t.response.body.success

====
